---- MODULE Spec2Model ----
(***************************************************************************)
(* Model of the Sims 4 package validator:                                  *)
(*   src/validators/package_validator.py   SimsPackageValidator            *)
(*   src/validators/magic_numbers/packages.py   byte-layout constants      *)
(*   src/files.py                          CCFile, CCType                  *)
(*                                                                         *)
(* One call of SimsPackageValidator.validate is modelled as the metadata   *)
(* step followed by the body of the `with` block (open, read, parse,       *)
(* validate_header, validate_index_info) and the except clauses of         *)
(* validate.  The file system object behind CCFile.file_path and the      *)
(* decoded header are the inputs.                                          *)
(*                                                                         *)
(*   src/handlers/package_handler.py       Sims4PackageHandler             *)
(*                                                                         *)
(* One `with Sims4PackageHandler(f) as h: h.get_entries()` block is        *)
(* modelled step by step: __enter__, get_header, parse_index_flags, one    *)
(* step per iteration of the entry loop, the return, __exit__.             *)
(***************************************************************************)
EXTENDS Integers, Sequences, FiniteSets, TLC

VARIABLES pc, file, outcome, result, steps, handle, rfile, reader

vars == <<pc, file, outcome, result, steps, handle, rfile, reader>>

\* the variables of a validate call, and those of a reader block
validator_vars == <<pc, file, outcome, result, steps>>

reader_vars == <<rfile, reader>>

(***************************************************************************)
(* Bounds of the model.                                                    *)
(***************************************************************************)
\* bytes a modelled file may hold after its 96-byte header
MaxIndexBytes == 2
\* directory entries a modelled header may declare
MaxEntries == 1
\* 4-byte words a file given to the reader may hold after its header
MaxWords == 9
\* entries the header of a file given to the reader may declare
MaxIndexCount == 2

(***************************************************************************)
(* validators/magic_numbers/packages.py: the names the module defines.     *)
(* An attribute the module does not define raises AttributeError on        *)
(* lookup (magic_has).                                                     *)
(***************************************************************************)
magic ==
    [ HEADER_STRUCT_FORMAT          |-> "<4s 11I 12s I Q 24s",
      HEADER_SIZE                   |-> 96,
      INDEX_HEADER_STRUCT_FORMAT    |-> "<I",
      INDEX_HEADER_SIZE             |-> 4,
      INDEX_VERSION_MAJOR           |-> 0,
      INDEX_VERSION_MINOR           |-> 3,
      STATIC_ENTRY_STRUCT_FORMAT    |-> "<4I",
      STATIC_ENTRY_SIZE             |-> 16,
      FILE_IDENTIFIER               |-> "DBPF",
      MIN_FILE_SIZE                 |-> 96,
      EXPECTED_MAJOR_FORMAT_VERSION |-> 2,
      EXPECTED_MINOR_FORMAT_VERSION |-> 1,
      EXPECTED_UNKNOWN_CONSTANT_ONE |-> 0,
      EXPECTED_HOLE_OFFSET          |-> 3 ]

magic_has(name) == name \in DOMAIN magic

HEADER_SIZE == magic.HEADER_SIZE

(***************************************************************************)
(* files.py: CCType, and package_validator.py: ValidationError.            *)
(***************************************************************************)
CCType == {"PACKAGE", "SCRIPT", "IMAGE", "OTHER"}

ValidationError ==
    { "FILE_TOO_SMALL", "INVALID_FILE_IDENTIFIER", "INVALID_FORMAT_VERSION",
      "INVALID_UNKNOWN_CONSTANT", "INDEX_OUT_OF_BOUNDS", "EMPTY_INDEX_INFO",
      "INVALID_INDEX", "INDEX_PARSE_ERROR", "FILE_NOT_FOUND", "FILE_NOT_FILE",
      "UNKNOWN_ERROR" }

MetaErrors == {"FILE_NOT_FOUND", "FILE_NOT_FILE", "FILE_TOO_SMALL"}

HeaderErrors ==
    {"INVALID_FILE_IDENTIFIER", "INVALID_FORMAT_VERSION", "INVALID_UNKNOWN_CONSTANT"}

DirectoryErrors ==
    {"INDEX_OUT_OF_BOUNDS", "EMPTY_INDEX_INFO", "INVALID_INDEX", "INDEX_PARSE_ERROR"}

(***************************************************************************)
(* How a call ends: normally (with a return value), with the typed         *)
(* PackageException, with ValueError, or with any other Exception.         *)
(***************************************************************************)
Returns(v) == [kind |-> "return", error |-> v]

PackageException(e) == [kind |-> "PackageException", error |-> e]

ValueError == [kind |-> "ValueError", error |-> "None"]

OtherException(name) == [kind |-> "Exception", error |-> name]

Outcomes ==
    [ kind : {"return", "PackageException", "ValueError", "Exception"},
      error : ValidationError \cup
              {"None", "FileNotFoundError", "IsADirectoryError",
               "PermissionError", "struct.error", "AttributeError"} ]

(***************************************************************************)
(* The header as struct.unpack decodes it (DBPFHeader); the fields the     *)
(* validator never looks at are left out.                                  *)
(***************************************************************************)
ZeroHeader ==
    [ file_signature |-> "",
      major_format_version |-> 0,
      minor_format_version |-> 0,
      unknown_one |-> 0,
      index_count |-> 0,
      index_offset_short |-> 0,
      index_size |-> 0,
      unknown_constant |-> 0 ]

Headers ==
    [ file_signature : {"DBPF", "XXXX"},
      major_format_version : {1, 2},
      minor_format_version : {0, 1},
      unknown_one : {0, 1},
      index_count : 0 .. MaxEntries,
      index_offset_short : {0} \cup (HEADER_SIZE .. HEADER_SIZE + MaxIndexBytes + 1),
      index_size : 0 .. MaxIndexBytes + 1,
      unknown_constant : {3, 4} ]

\* a directory entry: the resource it points at
Entries ==
    { [resource_offset |-> 0, compressed_size |-> 1],
      [resource_offset |-> HEADER_SIZE + MaxIndexBytes, compressed_size |-> 2] }

EntrySeqs(n) == [1 .. n -> Entries]

(***************************************************************************)
(* The input of validate: a CCFile (file_type, file_size_bytes) and the    *)
(* file system object its file_path names (kind, st_size, readable, the    *)
(* header the first 96 bytes decode to, the directory entries).            *)
(***************************************************************************)
NoContent(type, kind, size, fsb) ==
    [ file_type |-> type, kind |-> kind, st_size |-> size,
      file_size_bytes |-> fsb, readable |-> TRUE,
      header |-> ZeroHeader, entries |-> <<>> ]

RegularSizes == {0, HEADER_SIZE - 1} \cup (HEADER_SIZE .. HEADER_SIZE + MaxIndexBytes)

RecordedSizes == (HEADER_SIZE - 1) .. (HEADER_SIZE + MaxIndexBytes + 1)

WithHeader(h, s, fsb, es) ==
    [ file_type |-> "PACKAGE", kind |-> "regular", st_size |-> s,
      file_size_bytes |-> fsb, readable |-> TRUE,
      header |-> h, entries |-> es ]

IsCCFile(f) ==
    \* a path that names nothing
    \/ \E t \in {"PACKAGE", "SCRIPT"} : f = NoContent(t, "missing", 0, 0)
    \* a directory; its st_size depends on the file system
    \/ \E t \in {"PACKAGE", "SCRIPT"}, s \in {0, 4096} : f = NoContent(t, "dir", s, s)
    \* a regular file too short to hold a header
    \/ \E t \in {"PACKAGE", "SCRIPT"}, s \in {n \in RegularSizes : n < HEADER_SIZE} :
          f = NoContent(t, "regular", s, s)
    \* a regular file that cannot be opened
    \/ f = [ NoContent("PACKAGE", "regular", HEADER_SIZE, HEADER_SIZE)
               EXCEPT !.readable = FALSE ]
    \* a regular file with a full header and the entries it declares;
    \* file_size_bytes was recorded when the file was found and may be stale
    \/ \E h \in Headers, s \in {n \in RegularSizes : n >= HEADER_SIZE},
          fsb \in RecordedSizes :
          \E es \in EntrySeqs(h.index_count) : f = WithHeader(h, s, fsb, es)

(***************************************************************************)
(* pathlib and file-object primitives.                                     *)
(***************************************************************************)
exists(f) == f.kind # "missing"

is_file(f) == f.kind = "regular"

\* Path.open("rb"): the exception it raises, or a normal return
open(f) ==
    IF f.kind = "missing" THEN OtherException("FileNotFoundError")
    ELSE IF f.kind = "dir" THEN OtherException("IsADirectoryError")
    ELSE IF ~ f.readable THEN OtherException("PermissionError")
    ELSE Returns("None")

\* seek(pos) then read(n): the number of bytes the file yields
read(f, pos, n) ==
    IF f.st_size - pos >= n THEN n
    ELSE IF f.st_size > pos THEN f.st_size - pos
    ELSE 0

\* validate_file_meta with the 64-byte minimum of the older magic values
validate_file_meta_min64(f) ==
    IF f.file_type # "PACKAGE" THEN ValueError
    ELSE
      LET code1 == IF ~ exists(f) THEN "FILE_NOT_FOUND" ELSE "None"
          code2 == IF ~ is_file(f) THEN "FILE_NOT_FILE" ELSE code1
          code3 == IF f.st_size < 64 THEN "FILE_TOO_SMALL" ELSE code2
      IN  IF ~ exists(f) THEN OtherException("FileNotFoundError")
          ELSE IF code3 # "None" THEN PackageException(code3)
          ELSE Returns("None")

(***************************************************************************)
(* SimsPackageValidator.validate_file_meta.  error_code is overwritten by  *)
(* every later check that fires; stat() raises for a path that names       *)
(* nothing; the exception is raised only after the last check.             *)
(***************************************************************************)
validate_file_meta(f) ==
    IF f.file_type # "PACKAGE" THEN ValueError
    ELSE
      LET code1 == IF ~ exists(f) THEN "FILE_NOT_FOUND" ELSE "None"
          code2 == IF ~ is_file(f) THEN "FILE_NOT_FILE" ELSE code1
          code3 == IF f.st_size < magic.MIN_FILE_SIZE THEN "FILE_TOO_SMALL" ELSE code2
      IN  IF ~ exists(f) THEN OtherException("FileNotFoundError")
          ELSE IF code3 # "None" THEN PackageException(code3)
          ELSE Returns("None")

(***************************************************************************)
(* SimsPackageValidator._parse_dbpf2_header: struct.unpack raises          *)
(* struct.error unless it is given exactly HEADER_SIZE bytes.              *)
(***************************************************************************)
parse_dbpf2_header(f, header_data_len) ==
    IF header_data_len # HEADER_SIZE THEN OtherException("struct.error")
    ELSE Returns("None")

\* validate_header that records its error but never raises it
validate_header_no_raise(header) == Returns("None")

(***************************************************************************)
(* SimsPackageValidator.validate_header.  The third check reads            *)
(* magic.EXPECTED_UNKNOWN_CONSTANT before anything is raised.              *)
(***************************************************************************)
validate_header(header) ==
    LET code1 == IF header.file_signature # magic.FILE_IDENTIFIER
                 THEN "INVALID_FILE_IDENTIFIER" ELSE "None"
        code2 == IF \/ header.major_format_version # magic.EXPECTED_MAJOR_FORMAT_VERSION
                    \/ header.minor_format_version # magic.EXPECTED_MINOR_FORMAT_VERSION
                 THEN "INVALID_FORMAT_VERSION" ELSE code1
    IN  IF ~ magic_has("EXPECTED_UNKNOWN_CONSTANT") THEN OtherException("AttributeError")
        ELSE
          LET code3 == IF header.unknown_constant # magic["EXPECTED_UNKNOWN_CONSTANT"]
                       THEN "INVALID_UNKNOWN_CONSTANT" ELSE code2
          IN  IF code3 # "None" THEN PackageException(code3) ELSE Returns("None")

(***************************************************************************)
(* SimsPackageValidator.validate_index_info.  seek and read on a regular   *)
(* file raise nothing, so the INDEX_PARSE_ERROR handler is not entered.    *)
(***************************************************************************)
validate_index_info(f, header, file_size_bytes) ==
    LET code1 == IF header.index_size = 0 THEN "EMPTY_INDEX_INFO" ELSE "None"
        code2 == IF \/ header.index_offset_short > file_size_bytes
                    \/ header.index_offset_short + header.index_size > file_size_bytes
                 THEN "INDEX_OUT_OF_BOUNDS" ELSE code1
        index_data_len == read(f, header.index_offset_short, header.index_size)
        code3 == IF index_data_len # header.index_size THEN "INVALID_INDEX" ELSE code2
    IN  IF code3 # "None" THEN PackageException(code3) ELSE Returns("None")

(***************************************************************************)
(* The body of the `with` block of validate: open, read the header,        *)
(* parse it, validate_header, validate_index_info.  `ran` lists the        *)
(* validation steps that were entered.                                     *)
(***************************************************************************)
with_block(f) ==
    LET opened == open(f)
        parsed == parse_dbpf2_header(f, read(f, 0, magic.HEADER_SIZE))
        hdr    == validate_header(f.header)
        idx    == validate_index_info(f, f.header, f.file_size_bytes)
    IN  IF opened.kind # "return" THEN [outcome |-> opened, ran |-> <<>>]
        ELSE IF parsed.kind # "return" THEN [outcome |-> parsed, ran |-> <<>>]
        ELSE IF hdr # Returns("None") THEN [outcome |-> hdr, ran |-> <<"header">>]
        ELSE [outcome |-> idx, ran |-> <<"header", "directory">>]

\* leaving the block by f = open(...); ...; f.close(), which skips the
\* close when the body raises
with_exit_no_finally(h, o) == IF o.kind = "return" THEN "closed" ELSE h

(***************************************************************************)
(* Leaving `with package_file.file_path.open("rb") as raw_package`: the    *)
(* file object's __exit__ closes it whatever the outcome of the body.      *)
(***************************************************************************)
with_exit(h, o) == "closed"

\* validate without the `except ValueError: raise` clause
validate_except_no_reraise(o) ==
    IF o.kind = "PackageException" THEN [pc |-> "FAILED", result |-> o.error]
    ELSE IF o.kind \in {"ValueError", "Exception"}
         THEN [pc |-> "FAILED", result |-> "UNKNOWN_ERROR"]
    ELSE IF o.error # "None" THEN [pc |-> "FAILED", result |-> o.error]
    ELSE [pc |-> "DONE", result |-> "None"]

(***************************************************************************)
(* The except clauses of validate, and its return value.                   *)
(***************************************************************************)
validate_except(o) ==
    IF o.kind = "PackageException" THEN [pc |-> "FAILED", result |-> o.error]
    ELSE IF o.kind = "ValueError" THEN [pc |-> "RAISED", result |-> "ValueError"]
    ELSE IF o.kind = "Exception" THEN [pc |-> "FAILED", result |-> "UNKNOWN_ERROR"]
    ELSE IF o.error # "None" THEN [pc |-> "FAILED", result |-> o.error]
    ELSE [pc |-> "DONE", result |-> "None"]

(***************************************************************************)
(* The file a Sims4PackageHandler is given.  Its header holds index_count  *)
(* and index_offset_long; the 4-byte word at index_offset_long is the      *)
(* flags word (only its low three bits vary); every other word after the   *)
(* header holds its own byte offset, so a decoded field tells where it     *)
(* was read from; `ext` sets bit 31 of these words (the extended-entry     *)
(* bit of a packed size).                                                  *)
(* Offsets are multiples of 4; the length need not be.                     *)
(***************************************************************************)
ShortReaderFile(kind, size) ==
    [ kind |-> kind, st_size |-> size, readable |-> TRUE, index_count |-> 0,
      index_offset_long |-> 0, raw_flags |-> 0, ext |-> FALSE ]

ReaderSizes == { HEADER_SIZE + 2 * j : j \in 0 .. 2 * MaxWords }

ReaderOffsets == { HEADER_SIZE, HEADER_SIZE + 4, HEADER_SIZE + 4 * MaxWords }

IsReaderFile(f) ==
    \/ f = ShortReaderFile("missing", 0)
    \/ \E s \in {0, HEADER_SIZE - 1} : f = ShortReaderFile("regular", s)
    \/ \E s \in ReaderSizes, n \in 0 .. MaxIndexCount, off \in ReaderOffsets,
          fl \in 0 .. 7, x \in BOOLEAN :
          f = [ kind |-> "regular", st_size |-> s, readable |-> TRUE,
                index_count |-> n, index_offset_long |-> off,
                raw_flags |-> fl, ext |-> x ]

\* struct.unpack("<I", ...) of the 4 bytes at offset p: a 32-bit value,
\* kept as its bit 31 (high) and its bits 0..30 (low)
word(f, p) ==
    IF p = f.index_offset_long THEN [high |-> 0, low |-> f.raw_flags]
    ELSE [high |-> IF f.ext THEN 1 ELSE 0, low |-> p]

\* an unset (None) field, and a field that was read
Unset == <<>>

Field(v) == <<v>>

(***************************************************************************)
(* Sims4PackageHandler.parse_index_flags: seek to index_offset_long, read  *)
(* 4 bytes, unpack (struct.error on a short read), mask the three bits.    *)
(***************************************************************************)
NoFlags ==
    [raw_flags |-> 0, constant_type |-> 0, constant_group |-> 0, constant_instance |-> 0]

parse_index_flags(f) ==
    LET got == read(f, f.index_offset_long, magic.INDEX_HEADER_SIZE)
        raw == word(f, f.index_offset_long).low
    IN  IF got # 4
        THEN [exc |-> "struct.error", flags |-> NoFlags, pos |-> f.index_offset_long + got]
        ELSE [ exc |-> "None",
               flags |-> [ raw_flags |-> raw,
                           constant_type |-> raw % 2,
                           constant_group |-> ((raw \div 2) % 2) * 2,
                           constant_instance |-> ((raw \div 4) % 2) * 4 ],
               pos |-> f.index_offset_long + got ]

\* get_entries: the offset each iteration of the loop seeks to; index_pos
\* is assigned once, before the loop
index_pos(k) == magic.HEADER_SIZE

(***************************************************************************)
(* One iteration of the loop of get_entries, from the seek to the append:  *)
(* the optional fields (read when the flag is non-zero), the 16-byte       *)
(* static part, the extended fields.  ok is FALSE when an unpack got       *)
(* fewer bytes than its format needs.                                      *)
(***************************************************************************)
read_entry(f, flags, start) ==
    LET has_t == flags.constant_type # 0
        has_g == flags.constant_group # 0
        has_i == flags.constant_instance # 0
        p1 == IF has_t THEN start + 4 ELSE start
        p2 == IF has_g THEN p1 + 4 ELSE p1
        p3 == IF has_i THEN p2 + 4 ELSE p2
        p4 == p3 + magic.STATIC_ENTRY_SIZE
        packed == word(f, p3 + 8)
        extended == packed.high % 2
        p5 == IF extended # 0 THEN p4 + 4 ELSE p4
        tail == word(f, p4)
        short ==
            \/ has_t /\ read(f, start, 4) # 4
            \/ has_g /\ read(f, p1, 4) # 4
            \/ has_i /\ read(f, p2, 4) # 4
            \/ read(f, p3, magic.STATIC_ENTRY_SIZE) # magic.STATIC_ENTRY_SIZE
            \/ extended # 0 /\ read(f, p4, 4) # 4
    IN  IF short THEN [ok |-> FALSE, entry |-> <<>>, start |-> start, end |-> start]
        ELSE [ ok |-> TRUE,
               entry |->
                 [ resource_key_type |-> IF has_t THEN Field(word(f, start)) ELSE Unset,
                   resource_key_group |-> IF has_g THEN Field(word(f, p1)) ELSE Unset,
                   resource_key_instance_upper_32_bits |->
                       IF has_i THEN Field(word(f, p2)) ELSE Unset,
                   resource_key_instance_lower_32_bits |-> word(f, p3),
                   resource_offset |-> word(f, p3 + 4),
                   compressed_size |-> packed.low,
                   uncompressed_size |-> word(f, p3 + 12),
                   extended_entry |-> extended,
                   compression_type |->
                       IF extended # 0 THEN Field(tail.low % 65536) ELSE Unset,
                   comitted |->
                       IF extended # 0
                       THEN Field(((tail.low \div 65536) + tail.high * 32768) % 65536)
                       ELSE Unset ],
               start |-> start,
               end |-> p5 ]

\* Sims4PackageHandler.__exit__: self._file.close()
exit_close(h) == "closed"

Terminal == pc \in {"DONE", "FAILED", "RAISED"}

(***************************************************************************)
(* The state machine of one validate call.  Calls share no state, so the   *)
(* file of the call is drawn in Init.                                      *)
(***************************************************************************)
\* no reader block is in progress
NoReaderFile == ShortReaderFile("missing", 0)

ReaderIdle ==
    [ pc |-> "idle", header_len |-> 0, flags |-> NoFlags, pos |-> 0,
      entries |-> <<>>, spans |-> <<>>, exc |-> "None", returned |-> FALSE ]

Init ==
    /\ pc = "NOT_STARTED"
    /\ IsCCFile(file)
    /\ outcome = Returns("None")
    /\ result = "None"
    /\ steps = <<>>
    /\ handle = "none"
    /\ rfile = NoReaderFile
    /\ reader = ReaderIdle

\* validate, first statement of the try block
ValidateFileMeta ==
    /\ pc = "NOT_STARTED"
    /\ LET o == validate_file_meta(file)
       IN  /\ outcome' = o
           /\ steps' = Append(steps, "meta")
           /\ IF o = Returns("None")
              THEN /\ pc' = "METADATA_CHECKED"
                   /\ result' = result
              ELSE /\ pc' = validate_except(o).pc
                   /\ result' = validate_except(o).result
    /\ UNCHANGED <<file, handle, rfile, reader>>

\* validate, package_file.file_path.open("rb") of the with statement
ValidateOpen ==
    /\ pc = "METADATA_CHECKED"
    /\ LET o == open(file)
       IN  /\ outcome' = o
           /\ IF o = Returns("None")
              THEN /\ pc' = "OPENED"
                   /\ result' = result
                   /\ handle' = "open"
              ELSE /\ pc' = validate_except(o).pc
                   /\ result' = validate_except(o).result
                   /\ handle' = handle
    /\ UNCHANGED <<file, steps, rfile, reader>>

\* validate, the body of the `with` block, its exit and the return
ValidateWithBlock ==
    /\ pc = "OPENED"
    /\ LET b == with_block(file)
       IN  /\ outcome' = b.outcome
           /\ steps' = steps \o b.ran
           /\ handle' = with_exit(handle, b.outcome)
           /\ pc' = validate_except(b.outcome).pc
           /\ result' = validate_except(b.outcome).result
    /\ UNCHANGED <<file, rfile, reader>>

Next == ValidateFileMeta \/ ValidateOpen \/ ValidateWithBlock

Spec == Init /\ [][Next]_vars

(***************************************************************************)
(* The state machine of one `with Sims4PackageHandler(f) as h:             *)
(* h.get_entries()` block.                                                 *)
(***************************************************************************)
InitReader ==
    /\ pc = "NOT_CALLED"
    /\ file = NoContent("OTHER", "missing", 0, 0)
    /\ outcome = Returns("None")
    /\ result = "None"
    /\ steps = <<>>
    /\ handle = "none"
    /\ IsReaderFile(rfile)
    /\ reader = [ReaderIdle EXCEPT !.pc = "init"]

\* __enter__: open the file and read the header bytes; when open raises,
\* the block is not entered and __exit__ is not called
ReaderEnter ==
    /\ reader.pc = "init"
    /\ LET o == open(rfile)
       IN  IF o.kind # "return"
           THEN /\ reader' = [reader EXCEPT !.pc = "raised", !.exc = o.error]
                /\ handle' = handle
           ELSE /\ reader' = [reader EXCEPT
                                !.pc = "entered",
                                !.header_len = read(rfile, 0, magic.HEADER_SIZE),
                                !.pos = read(rfile, 0, magic.HEADER_SIZE)]
                /\ handle' = "open"
    /\ UNCHANGED <<validator_vars, rfile>>

\* get_entries, get_header(): struct.unpack of self._header, outside the try
ReaderGetHeader ==
    /\ reader.pc = "entered"
    /\ reader' = IF reader.header_len # HEADER_SIZE
                 THEN [reader EXCEPT !.pc = "exiting", !.exc = "struct.error"]
                 ELSE [reader EXCEPT !.pc = "header_parsed"]
    /\ UNCHANGED <<validator_vars, rfile, handle>>

\* get_entries, parse_index_flags(), outside the try; then entries = [],
\* the seek to index_offset_long and index_pos = HEADER_SIZE
ReaderParseIndexFlags ==
    /\ reader.pc = "header_parsed"
    /\ LET r == parse_index_flags(rfile)
       IN  reader' = IF r.exc # "None"
                     THEN [reader EXCEPT !.pc = "exiting", !.exc = r.exc, !.pos = r.pos]
                     ELSE [reader EXCEPT !.pc = "loop", !.flags = r.flags,
                                         !.pos = rfile.index_offset_long]
    /\ UNCHANGED <<validator_vars, rfile, handle>>

\* get_entries, one iteration of the loop; any exception inside the try
\* becomes PackageHandlerException
ReaderReadEntry ==
    /\ reader.pc = "loop"
    /\ Len(reader.entries) < rfile.index_count
    /\ LET e == read_entry(rfile, reader.flags, index_pos(Len(reader.entries) + 1))
       IN  reader' = IF ~ e.ok
                     THEN [reader EXCEPT !.pc = "exiting",
                                         !.exc = "PackageHandlerException"]
                     ELSE [reader EXCEPT
                             !.entries = Append(@, e.entry),
                             !.spans = Append(@, [start |-> e.start, end |-> e.end]),
                             !.pos = e.end]
    /\ UNCHANGED <<validator_vars, rfile, handle>>

\* get_entries, return entries
ReaderReturn ==
    /\ reader.pc = "loop"
    /\ Len(reader.entries) = rfile.index_count
    /\ reader' = [reader EXCEPT !.pc = "exiting", !.returned = TRUE]
    /\ UNCHANGED <<validator_vars, rfile, handle>>

\* __exit__, on the return of get_entries or on its exception
ReaderExit ==
    /\ reader.pc = "exiting"
    /\ handle' = exit_close(handle)
    /\ reader' = [reader EXCEPT !.pc = IF reader.exc = "None" THEN "done" ELSE "raised"]
    /\ UNCHANGED <<validator_vars, rfile>>

NextReader ==
    \/ ReaderEnter
    \/ ReaderGetHeader
    \/ ReaderParseIndexFlags
    \/ ReaderReadEntry
    \/ ReaderReturn
    \/ ReaderExit

SpecReader == InitReader /\ [][NextReader]_vars

ReaderTerminal == reader.pc \in {"done", "raised"}

\* a validate call or a reader block
InitAll == Init \/ InitReader

NextAll == Next \/ NextReader

SpecAll == InitAll /\ [][NextAll]_vars

TypeOK ==
    /\ pc \in {"NOT_CALLED", "NOT_STARTED", "METADATA_CHECKED", "OPENED", "DONE",
              "FAILED", "RAISED"}
    /\ reader.pc \in {"idle", "init", "entered", "header_parsed", "loop", "exiting",
                     "done", "raised"}
    /\ Len(reader.entries) = Len(reader.spans)
    /\ handle \in {"none", "open", "closed"}
    /\ file.file_type \in CCType
    /\ outcome \in Outcomes
    /\ result \in ValidationError \cup {"None", "ValueError"}
    /\ steps \in Seq({"meta", "header", "directory"})

(***************************************************************************)
(* Vocabulary of the properties: what the format requires of a file,       *)
(* stated on the input and not on what the validator computes.             *)
(***************************************************************************)
IsPackage == file.file_type = "PACKAGE"

\* the three conditions of the metadata step
MetaPasses == exists(file) /\ is_file(file) /\ file.st_size >= 96

\* the file can be opened and its header decoded
Decodable == IsPackage /\ MetaPasses /\ file.readable

SignatureOk == file.header.file_signature = "DBPF"

VersionOk ==
    file.header.major_format_version = 2 /\ file.header.minor_format_version = 1

ConstantsOk == file.header.unknown_one = 0 /\ file.header.unknown_constant = 3

HeaderPasses == SignatureOk /\ VersionOk /\ ConstantsOk

\* the arithmetic bounds check of the directory step
IndexInBounds ==
    /\ file.header.index_offset_short <= file.file_size_bytes
    /\ file.header.index_offset_short + file.header.index_size <= file.file_size_bytes

\* the index region can be read in full
IndexReadable ==
    file.header.index_offset_short + file.header.index_size <= file.st_size

IsPrefix(s, t) == Len(s) <= Len(t) /\ \A i \in 1 .. Len(s) : s[i] = t[i]

StepOrder == <<"meta", "header", "directory">>

(***************************************************************************)
(* C1: validate runs its steps in the order file metadata, header,         *)
(* directory; a file that fails the metadata check ends after the          *)
(* metadata step and is not reported with a header or directory kind; a    *)
(* file that fails the header check never enters the directory step and    *)
(* is not reported with a directory kind; a step that did not return       *)
(* normally is the last step that ran.                                     *)
(***************************************************************************)
C1_FixedOrderFailFast ==
    /\ IsPrefix(steps, StepOrder)
    /\ (Terminal /\ IsPackage /\ ~ MetaPasses) =>
          /\ steps = <<"meta">>
          /\ result \notin HeaderErrors \cup DirectoryErrors
    /\ (Terminal /\ Decodable /\ ~ HeaderPasses) =>
          /\ steps = <<"meta", "header">>
          /\ result \notin DirectoryErrors
    /\ (pc = "METADATA_CHECKED") => (MetaPasses /\ steps = <<"meta">>)

C1_Witness ==
    /\ pc = "FAILED"
    /\ Decodable
    /\ ~ SignatureOk
    /\ IndexInBounds /\ file.header.index_size = 0
    /\ steps = <<"meta", "header">>

(***************************************************************************)
(* C2: a PACKAGE file that exists, is a regular file of at least 96 bytes  *)
(* with signature DBPF, format version (2, 1), constant-one 0,             *)
(* constant-three 3, index_size > 0, an index inside the file and a fully  *)
(* readable index region ends in DONE with no error.                       *)
(***************************************************************************)
ValidFile ==
    /\ Decodable
    /\ HeaderPasses
    /\ file.header.index_size > 0
    /\ IndexInBounds
    /\ IndexReadable

C2_ValidFileIsDone ==
    (Terminal /\ ValidFile) => (pc = "DONE" /\ result = "None")

(***************************************************************************)
(* C3: the metadata step reports the first true condition among: the path  *)
(* does not exist (FILE_NOT_FOUND), it is not a regular file               *)
(* (FILE_NOT_FILE, whatever its size), its length is below 96              *)
(* (FILE_TOO_SMALL, only for an existing regular file).                    *)
(***************************************************************************)
C3_MetaFirstTrueCondition ==
    (Terminal /\ IsPackage) =>
        /\ ~ exists(file) => result = "FILE_NOT_FOUND"
        /\ (exists(file) /\ ~ is_file(file)) => result = "FILE_NOT_FILE"
        /\ (is_file(file) /\ file.st_size < 96) => result = "FILE_TOO_SMALL"
        /\ result = "FILE_TOO_SMALL" => (is_file(file) /\ file.st_size < 96)

(***************************************************************************)
(* C4: for a file that passes the metadata step, a signature other than    *)
(* DBPF gives INVALID_FILE_IDENTIFIER whatever the other fields are, and   *)
(* a correct signature with a format version other than (2, 1) gives       *)
(* INVALID_FORMAT_VERSION.                                                 *)
(***************************************************************************)
C4_HeaderFirstFailingCheck ==
    (Terminal /\ Decodable) =>
        /\ ~ SignatureOk => result = "INVALID_FILE_IDENTIFIER"
        /\ (SignatureOk /\ ~ VersionOk) => result = "INVALID_FORMAT_VERSION"

(***************************************************************************)
(* C5: for a file that passes the metadata step with correct signature     *)
(* and version, the result is INVALID_UNKNOWN_CONSTANT exactly when        *)
(* constant-one is not 0 or constant-three is not 3.                       *)
(***************************************************************************)
C5_UnknownConstants ==
    (Terminal /\ Decodable /\ SignatureOk /\ VersionOk) =>
        (result = "INVALID_UNKNOWN_CONSTANT" <=> ~ ConstantsOk)

(***************************************************************************)
(* C6: for a file that passes the metadata and header steps, index_size    *)
(* = 0 gives EMPTY_INDEX_INFO, whether index_offset_short lies inside the  *)
(* file or beyond it.                                                      *)
(***************************************************************************)
C6_EmptyIndexInfo ==
    (Terminal /\ Decodable /\ HeaderPasses /\ file.header.index_size = 0) =>
        result = "EMPTY_INDEX_INFO"

(***************************************************************************)
(* C7: for a file that passes the metadata and header steps with           *)
(* index_size > 0, an index that ends beyond the file size gives           *)
(* INDEX_OUT_OF_BOUNDS, and INVALID_INDEX is returned only when the        *)
(* arithmetic check passes and the read comes back short.                  *)
(***************************************************************************)
C7_IndexOutOfBounds ==
    (Terminal /\ Decodable /\ HeaderPasses) =>
        /\ (file.header.index_size > 0 /\ ~ IndexInBounds) =>
              result = "INDEX_OUT_OF_BOUNDS"
        /\ result = "INVALID_INDEX" => (IndexInBounds /\ ~ IndexReadable)

(***************************************************************************)
(* C8: an existing regular PACKAGE file shorter than 96 bytes gives        *)
(* FILE_TOO_SMALL; its header is never decoded (the metadata step is the   *)
(* only step) and no exception reaches the except clauses or the caller.   *)
(***************************************************************************)
C8_FileTooSmall ==
    (Terminal /\ IsPackage /\ is_file(file) /\ file.st_size < 96) =>
        /\ pc = "FAILED"
        /\ result = "FILE_TOO_SMALL"
        /\ steps = <<"meta">>
        /\ outcome = PackageException("FILE_TOO_SMALL")

C8_Witness ==
    /\ pc = "FAILED"
    /\ IsPackage /\ is_file(file) /\ file.st_size = 95
    /\ result = "FILE_TOO_SMALL"

(***************************************************************************)
(* C9 as stated: no exception of any type leaves validate.                 *)
(***************************************************************************)
C9_NoExceptionEscapes == pc # "RAISED"

(***************************************************************************)
(* C9 as amended: an exception other than ValueError that leaves a step    *)
(* is returned as UNKNOWN_ERROR, a typed validation failure is returned    *)
(* with its kind unchanged, and validate raises exactly when a step        *)
(* raises ValueError, which the metadata step does for a file whose type   *)
(* is not PACKAGE.                                                         *)
(***************************************************************************)
C9_FailClosedExceptValueError ==
    Terminal =>
        /\ outcome.kind = "PackageException" =>
              (pc = "FAILED" /\ result = outcome.error)
        /\ outcome.kind = "Exception" =>
              (pc = "FAILED" /\ result = "UNKNOWN_ERROR")
        /\ pc = "RAISED" <=> outcome.kind = "ValueError"
        /\ pc = "RAISED" <=> ~ IsPackage
        /\ (IsPackage /\ ~ exists(file)) => result = "UNKNOWN_ERROR"
        /\ (IsPackage /\ MetaPasses /\ ~ file.readable) => result = "UNKNOWN_ERROR"
        /\ pc = "DONE" => outcome = Returns("None")

C9_Witness ==
    /\ pc = "FAILED"
    /\ outcome.kind = "Exception"
    /\ result = "UNKNOWN_ERROR"
    /\ IsPackage /\ MetaPasses /\ ~ file.readable

(***************************************************************************)
(* C10: once the header passes and the index region is in bounds,          *)
(* validate goes on to the directory entries and checks each of them, so   *)
(* a file with an entry whose resource range ends beyond the file is       *)
(* never reported valid.                                                   *)
(***************************************************************************)
BadEntry(e) == e.resource_offset + e.compressed_size > file.st_size

C10_EveryEntryChecked ==
    (Terminal /\ ValidFile) =>
        /\ IsPrefix(<<"meta", "header", "directory">>, steps)
        /\ (\E i \in 1 .. Len(file.entries) : BadEntry(file.entries[i])) =>
              (pc = "FAILED" /\ result \in DirectoryErrors)
        /\ (\A i \in 1 .. Len(file.entries) : ~ BadEntry(file.entries[i])) =>
              pc = "DONE"

(***************************************************************************)
(* Vocabulary of the reader properties.                                    *)
(***************************************************************************)
\* bit b (0, 1, 2) of the flags word stored in the file
FlagBit(b) ==
    IF b = 0 THEN rfile.raw_flags % 2
    ELSE IF b = 1 THEN (rfile.raw_flags \div 2) % 2
    ELSE (rfile.raw_flags \div 4) % 2

ClearFlagBits == Cardinality({b \in 0 .. 2 : FlagBit(b) = 0})

\* get_entries was called and has returned or raised
GetEntriesEnded ==
    \/ reader.pc \in {"exiting", "done"}
    \/ reader.pc = "raised" /\ handle # "none"

(***************************************************************************)
(* C11: for every combination of the three directory flags, an entry's     *)
(* optional type / group / instance-upper field is read exactly when its   *)
(* flag bit is 0, and an entry consumes 16 + 4 * (number of clear flag     *)
(* bits) bytes, plus 4 when its extended-entry bit is set; the parsed      *)
(* flags are the flags word ANDed with 0x1, 0x2, 0x4.                      *)
(***************************************************************************)
C11_OptionalFieldIffFlagClear ==
    /\ reader.pc = "loop" =>
          /\ reader.flags.constant_type = FlagBit(0)
          /\ reader.flags.constant_group = 2 * FlagBit(1)
          /\ reader.flags.constant_instance = 4 * FlagBit(2)
    /\ \A i \in 1 .. Len(reader.entries) :
          LET e == reader.entries[i]
              sp == reader.spans[i]
          IN  /\ (e.resource_key_type # Unset) <=> (FlagBit(0) = 0)
              /\ (e.resource_key_group # Unset) <=> (FlagBit(1) = 0)
              /\ (e.resource_key_instance_upper_32_bits # Unset) <=> (FlagBit(2) = 0)
              /\ sp.end - sp.start = 16 + 4 * ClearFlagBits + 4 * e.extended_entry

(***************************************************************************)
(* C12: the k-th entry is decoded starting at the byte where the           *)
(* (k-1)-th entry ended, and on normal return the list holds exactly       *)
(* index_count entries.                                                    *)
(***************************************************************************)
C12_CumulativeCursor ==
    /\ \A k \in 2 .. Len(reader.spans) :
          reader.spans[k].start = reader.spans[k - 1].end
    /\ reader.returned => Len(reader.entries) = rfile.index_count

(***************************************************************************)
(* C13: the flags word is the 4 bytes at index_offset_long and the first   *)
(* entry is decoded from index_offset_long + 4; when index_offset_long is  *)
(* not 96 the entries are not taken from the bytes at offset 96.           *)
(***************************************************************************)
C13_DecodeAtLongOffset ==
    /\ reader.pc = "loop" =>
          reader.flags.raw_flags = word(rfile, rfile.index_offset_long).low
    /\ Len(reader.spans) >= 1 =>
          /\ reader.spans[1].start = rfile.index_offset_long + 4
          /\ rfile.index_offset_long # 96 => reader.spans[1].start # 96

(***************************************************************************)
(* C14: a short read of the header, of the flags word or of an entry       *)
(* field makes get_entries raise PackageHandlerException; no other         *)
(* exception type leaves get_entries, and an exception leaves no list of   *)
(* entries returned.                                                       *)
(***************************************************************************)
C14_ShortReadIsHandlerException ==
    GetEntriesEnded =>
        /\ reader.exc \in {"None", "PackageHandlerException"}
        /\ rfile.st_size < 96 => reader.exc = "PackageHandlerException"
        /\ (rfile.st_size >= 96 /\ rfile.st_size < rfile.index_offset_long + 4) =>
              reader.exc = "PackageHandlerException"
        /\ reader.exc # "None" => ~ reader.returned

(***************************************************************************)
(* C15: the handle opened by validate or by a Sims4PackageHandler block    *)
(* is closed when the call or block has ended, whether it returned, failed *)
(* with a typed validation failure, failed while decoding or failed with   *)
(* an unexpected exception; a handle is open only inside the block; the    *)
(* file is never modified.                                                 *)
(***************************************************************************)
HandleReleased ==
    /\ (Terminal \/ ReaderTerminal) => handle # "open"
    /\ (Terminal /\ "header" \in {steps[i] : i \in 1 .. Len(steps)}) => handle = "closed"
    /\ (ReaderTerminal /\ reader.header_len > 0) => handle = "closed"
    /\ handle = "open" =>
          \/ pc = "OPENED"
          \/ reader.pc \in {"entered", "header_parsed", "loop", "exiting"}

====
